---- MODULE Spec2Model ----
(***************************************************************************)
(* Model of scripts/fetch_stocks.py: the fetch-normalise-write pipeline of *)
(* the stock data fetcher.                                                 *)
(*                                                                         *)
(* Conventions.  Money is fixed point (1.00 is 100).  A JSON scalar of a   *)
(* provider payload is one of the strings "<missing>" (the key is not in   *)
(* the object), "null" (a JSON null: float() and int() raise TypeError on  *)
(* it), or the text of a JSON string ("abc", "1", "2.5").  A date string   *)
(* is a sequence of digits, ordered as Python orders str.  A Python dict   *)
(* is a record [keys, val]: keys is the insertion order, val the mapping.  *)
(***************************************************************************)
EXTENDS Integers, Sequences, FiniteSets, TLC

VARIABLES
    api_key,      \* main: resolved credential
    symbols,      \* main: configured symbol list
    pc,           \* position of main(): "start", "loop", "history", "post", "exited"
    idx,          \* main: position of the for loop in symbols (1-based)
    quote,        \* main: quote of the symbol being processed
    stocks,       \* main: accumulator dict symbol -> {quote, history}
    requests,     \* provider requests issued by the current run, in order
    exit_status,  \* process exit status of the current run, NotExited while running
    exc,          \* exception that ended the current run, "none" otherwise
    written,      \* the current run has executed the write of line 245-246
    file,         \* content of data/stocks.json, NoFile when it does not exist
    prior,        \* content of data/stocks.json when the current run started
    hin,          \* input of the fetch_daily_history harness
    hout,         \* result of the fetch_daily_history harness
    din,          \* input of the generate_demo_history harness
    dout          \* result of the generate_demo_history harness

vars == <<api_key, symbols, pc, idx, quote, stocks, requests, exit_status,
          exc, written, file, prior, hin, hout, din, dout>>

mainVars == <<api_key, symbols, pc, idx, quote, stocks, requests, exit_status,
              exc, written, file, prior>>

(***************************************************************************)
(* Bounds                                                                  *)
(***************************************************************************)
MaxSyms == 2

MaxBars == 3

MaxDays == 7

(***************************************************************************)
(* Generic helpers                                                         *)
(***************************************************************************)
Range(s) == {s[i] : i \in DOMAIN s}

NotExited == 0 - 1

NoFile == [lastUpdated |-> 0 - 1, symbols |-> <<>>, stocks |-> [keys |-> <<>>, val |-> <<>>]]

NoQuote == [symbol |-> "", price |-> 0 - 1, volume |-> 0 - 1]

EmptyDict == [keys |-> <<>>, val |-> <<>>]

\* Faulty variant of DictSet: the assignment drops the entries already held.
DictSet_ClearFirst(d, k, v) == [keys |-> <<k>>, val |-> [x \in {k} |-> v]]

DictSet(d, k, v) ==
    [keys |-> IF k \in Range(d.keys) THEN d.keys ELSE Append(d.keys, k),
     val  |-> [x \in (DOMAIN d.val) \cup {k} |-> IF x = k THEN v ELSE d.val[x]]]

DictKeys(d) == DOMAIN d.val

\* Faulty variant of list_keys: the configured list in place of the keys.
list_keys_FromConfig(d) == symbols

list_keys(d) == d.keys

RECURSIVE StrLess(_, _)
StrLess(a, b) ==
    IF a = <<>> THEN b # <<>>
    ELSE IF b = <<>> THEN FALSE
    ELSE IF Head(a) # Head(b) THEN Head(a) < Head(b)
    ELSE StrLess(Tail(a), Tail(b))

(***************************************************************************)
(* Python's float() and int() on a JSON scalar, with quote.get's default   *)
(***************************************************************************)
float(v) ==
    CASE v = "<missing>" -> [exc |-> "none", val |-> 0]
      [] v = "1"         -> [exc |-> "none", val |-> 100]
      [] v = "2.5"       -> [exc |-> "none", val |-> 250]
      [] v = "abc"       -> [exc |-> "ValueError", val |-> 0]
      [] OTHER           -> [exc |-> "TypeError", val |-> 0]

int(v) ==
    CASE v = "<missing>" -> [exc |-> "none", val |-> 0]
      [] v = "1"         -> [exc |-> "none", val |-> 1]
      [] v = "2.5"       -> [exc |-> "ValueError", val |-> 0]
      [] v = "abc"       -> [exc |-> "ValueError", val |-> 0]
      [] OTHER           -> [exc |-> "TypeError", val |-> 0]

FirstExc(a, b) == IF a.exc # "none" THEN a.exc ELSE b.exc

Caught(e) == e \in {"RequestException", "ValueError", "KeyError"}

(***************************************************************************)
(* get_api_key, get_symbols                                                *)
(***************************************************************************)
KeyEnv == {"<unset>", "", "demo", "K1"}

get_api_key(env) == IF env \in {"<unset>", ""} THEN "demo" ELSE env

SymbolNames == {"AAPL", "ZZZ"}

SymbolLists == UNION {[1..n -> SymbolNames] : n \in 1..MaxSyms}

(***************************************************************************)
(* fetch_quote                                                             *)
(***************************************************************************)
QuoteObjects ==
    [symbol : {"<missing>", "<echo>"}, price : {"<missing>", "null", "abc", "1"},
     volume : {"<missing>", "2.5"}]

QuoteResponses ==
    [transport : {"RequestException"}, shape : {"object"}, error : {FALSE},
     note : {FALSE}, quote : {[symbol |-> "<missing>", price |-> "<missing>", volume |-> "<missing>"]}]
    \cup
    [transport : {"ok"}, shape : {"array"}, error : {FALSE},
     note : {FALSE}, quote : {[symbol |-> "<missing>", price |-> "<missing>", volume |-> "<missing>"]}]
    \cup
    [transport : {"ok"}, shape : {"object"}, error : BOOLEAN,
     note : BOOLEAN, quote : QuoteObjects]

QuoteEmpty(q) == q.symbol = "<missing>" /\ q.price = "<missing>" /\ q.volume = "<missing>"

\* The result is [exc, val]: exc is the exception that leaves the function
\* ("none" when it returns) and val the returned value (NoQuote for None).
fetch_quote(symbol, resp) ==
    LET None == [exc |-> "none", val |-> NoQuote]
        body ==
            IF resp.transport # "ok" THEN [exc |-> "RequestException", val |-> NoQuote]
            ELSE IF resp.error THEN None
            ELSE IF resp.note THEN None
            ELSE IF resp.shape # "object" THEN [exc |-> "AttributeError", val |-> NoQuote]
            ELSE IF QuoteEmpty(resp.quote) THEN None
            ELSE LET p == float(resp.quote.price)
                     v == int(resp.quote.volume)
                 IN  IF FirstExc(p, v) # "none"
                     THEN [exc |-> FirstExc(p, v), val |-> NoQuote]
                     ELSE [exc |-> "none",
                           val |-> [symbol |-> symbol, price |-> p.val, volume |-> v.val]]
    IN  IF body.exc # "none" /\ Caught(body.exc) THEN None ELSE body

Truthy(q) == q # NoQuote

(***************************************************************************)
(* fetch_daily_history                                                     *)
(***************************************************************************)
\* sorted(time_series.items()): the keys of a dict are distinct, so the
\* tuples are ordered by the date string alone.
RECURSIVE InsertByDate(_, _)
InsertByDate(e, s) ==
    IF s = <<>> THEN <<e>>
    ELSE IF StrLess(e.date, Head(s).date) THEN <<e>> \o s
    ELSE <<Head(s)>> \o InsertByDate(e, Tail(s))

\* Faulty variant of sorted: the entries in the order of the payload.
sorted_Unsorted(items) == items

RECURSIVE sorted(_)
sorted(items) ==
    IF items = <<>> THEN <<>> ELSE InsertByDate(Head(items), sorted(Tail(items)))

\* Lines 102-111: the loop over the sorted entries; it stops at the first
\* entry whose conversion raises.
RECURSIVE ConvertBars(_, _)
ConvertBars(items, history) ==
    IF items = <<>> THEN [exc |-> "none", val |-> history]
    ELSE LET e == Head(items)
         IN  IF e.bar.shape # "object" THEN [exc |-> "AttributeError", val |-> <<>>]
             ELSE LET c == float(e.bar.close)
                      v == int(e.bar.volume)
                  IN  IF FirstExc(c, v) # "none"
                      THEN [exc |-> FirstExc(c, v), val |-> <<>>]
                      ELSE ConvertBars(Tail(items),
                               Append(history, [date |-> e.date, close |-> c.val,
                                                volume |-> v.val]))

fetch_daily_history(resp) ==
    LET body ==
            IF resp.transport # "ok" THEN [exc |-> "RequestException", val |-> <<>>]
            ELSE IF resp.error \/ resp.note THEN [exc |-> "none", val |-> <<>>]
            ELSE IF resp.shape # "object" THEN [exc |-> "AttributeError", val |-> <<>>]
            ELSE ConvertBars(sorted(resp.series), <<>>)
    IN  IF body.exc # "none" /\ Caught(body.exc) THEN [exc |-> "none", val |-> <<>>]
        ELSE body

Bar(sh, c, v) == [shape |-> sh, close |-> c, volume |-> v]

\* A well-formed bar, a bar of defaults, a bar with an unparseable string, a
\* bar with a null field, a null in place of the bar.
Bars == {Bar("object", "2.5", "1"), Bar("object", "<missing>", "<missing>"),
         Bar("object", "abc", "1"), Bar("object", "null", "1"),
         Bar("null", "<missing>", "<missing>")}

MainBars == {Bar("object", "2.5", "<missing>"), Bar("object", "2.5", "2.5"),
             Bar("object", "null", "<missing>"), Bar("null", "<missing>", "<missing>")}

DateStrs == UNION {[1..n -> 0..1] : n \in 1..2}

NoDupDates(s) == \A i, j \in DOMAIN s : s[i].date = s[j].date => i = j

SeriesUpTo(n) ==
    {s \in UNION {[1..k -> [date : DateStrs, bar : Bars]] : k \in 0..n} : NoDupDates(s)}

HistResponse(t, sh, er, no, se) ==
    [transport |-> t, shape |-> sh, error |-> er, note |-> no, series |-> se]

\* The history responses of the pipeline runs: every failure class and a
\* one-bar series.
MainHistResponses ==
    {HistResponse("RequestException", "object", FALSE, FALSE, <<>>),
     HistResponse("ok", "array", FALSE, FALSE, <<>>),
     HistResponse("ok", "object", TRUE, FALSE, <<>>),
     HistResponse("ok", "object", FALSE, TRUE, <<>>)}
    \cup {HistResponse("ok", "object", FALSE, FALSE, <<[date |-> <<0, 1>>, bar |-> b]>>) : b \in MainBars}

(***************************************************************************)
(* generate_demo_history, generate_demo_data                               *)
(***************************************************************************)
\* Dates are day ordinals; day 0 is a Monday, as is every multiple of 7.
weekday(n) == n % 7

\* strftime("%Y-%m-%d"): fixed-width, zero-padded, most significant first.
strftime(n) == <<(n \div 100) % 10, (n \div 10) % 10, n % 10>>

Ordinal(ds) == 100 * ds[1] + 10 * ds[2] + ds[3]

Max(a, b) == IF a >= b THEN a ELSE b

Min(a, b) == IF a <= b THEN a ELSE b

\* Faulty variant of IsWeekend: Saturday counted as a weekday.
IsWeekend_SundayOnly(n) == weekday(n) >= 6

IsWeekend(n) == weekday(n) >= 5

\* Lines 172-191: iteration i of the loop, from the running price.  nowAt[i]
\* is the value of datetime.now() read in iteration i, walkAt[i] its
\* random.uniform draw in thousandths.  The result is the running price
\* after the iteration and the entries it appended.
DemoStep(i, days, price, nowAt, walkAt) ==
    LET entry_date == nowAt[i] - (days - i)
        change == (walkAt[i] * price) \div 1000
        p == Max(price \div 2, Min((price * 3) \div 2, price + change))
    IN  IF IsWeekend(entry_date)
        THEN [price |-> price, history |-> <<>>]
        ELSE [price |-> p,
              history |-> <<[date |-> strftime(entry_date), close |-> p,
                             volume |-> 20000000]>>]

\* Line 166: the iterations lo .. hi-1 of the loop in order, evaluated by
\* halving (first half L, then second half R from L's price) so that the
\* evaluation depth stays logarithmic.
RECURSIVE DemoLoop(_, _, _, _, _, _)
DemoLoop(lo, hi, days, price, nowAt, walkAt) ==
    IF lo >= hi THEN [price |-> price, history |-> <<>>]
    ELSE IF hi = lo + 1 THEN DemoStep(lo, days, price, nowAt, walkAt)
    ELSE LET mid == (lo + hi) \div 2
         IN  CHOOSE res \in
                 UNION {{[price |-> R.price, history |-> L.history \o R.history] :
                            R \in {DemoLoop(mid, hi, days, L.price, nowAt, walkAt)}} :
                        L \in {DemoLoop(lo, mid, days, price, nowAt, walkAt)}} : TRUE

generate_demo_history(current_price, days, nowAt, walkAt) ==
    DemoLoop(0, days, days, (current_price * 9) \div 10, nowAt, walkAt).history

DemoDays == 100

base_prices(symbol) ==
    CASE symbol = "AAPL"  -> 18500
      [] symbol = "MSFT"  -> 42000
      [] symbol = "GOOGL" -> 17500
      [] symbol = "AMZN"  -> 22000
      [] symbol = "TSLA"  -> 17500
      [] symbol = "NVDA"  -> 14000
      [] OTHER            -> 10000

\* The random draws of one symbol: the price noise and the walk direction.
Draws == {[noise |-> 0 - 500, walk |-> 0 - 30], [noise |-> 500, walk |-> 35]}

demo_record(symbol, draw, now) ==
    LET price == base_prices(symbol) + draw.noise
    IN  [quote   |-> [symbol |-> symbol, price |-> price, volume |-> 20000000],
         history |-> generate_demo_history(price, DemoDays,
                         [i \in 0..(DemoDays - 1) |-> now],
                         [i \in 0..(DemoDays - 1) |-> draw.walk])]

Todays == {703}

\* demo_record over the symbols, draws and dates of the runs, evaluated once.
DemoRecords ==
    [s \in SymbolNames, dr \in Draws, now \in Todays |-> demo_record(s, dr, now)]

RECURSIVE DemoFill(_, _, _, _, _)
DemoFill(i, syms, drawAt, now, d) ==
    IF i > Len(syms) THEN d
    ELSE DemoFill(i + 1, syms, drawAt, now,
                  DictSet(d, syms[i], DemoRecords[syms[i], drawAt[i], now]))

\* Faulty variant of NewStocks: the accumulator starts from the file.
NewStocks_KeepPrior == file.stocks

NewStocks == EmptyDict

\* Faulty variant of generate_demo_data: symbols without a base price are
\* left out.
generate_demo_data_KnownOnly(syms, drawAt, now) ==
    DemoFill(1, SelectSeq(syms, LAMBDA s : base_prices(s) # 10000),
             [i \in 1..Len(syms) |-> drawAt[1]], now, NewStocks)

generate_demo_data(syms, drawAt, now) == DemoFill(1, syms, drawAt, now, NewStocks)

(***************************************************************************)
(* main                                                                    *)
(***************************************************************************)
Request(kind, pos, ok) == [kind |-> kind, pos |-> pos, ok |-> ok]

\* Faulty variant of NextPc: the loop is left after the first symbol.
NextPc_EarlyPost(i) == "post"

NextPc(i) == IF i > Len(symbols) THEN "post" ELSE "loop"

HarnessIdle == UNCHANGED <<hin, hout, din, dout>>

\* An uncaught exception leaves main(): traceback, exit status 1.
Crash(e) ==
    /\ pc' = "exited"
    /\ exit_status' = 1
    /\ exc' = e

\* Lines 203-217, live branch: configuration, mkdir, empty accumulator.
StartLive ==
    /\ pc = "start"
    /\ api_key' \in {get_api_key(env) : env \in KeyEnv} \ {"demo"}
    /\ symbols' \in SymbolLists
    /\ stocks' = NewStocks
    /\ idx' = 1
    /\ pc' = "loop"
    /\ quote' = NoQuote
    /\ requests' = <<>>
    /\ exit_status' = NotExited
    /\ exc' = "none"
    /\ written' = FALSE
    /\ prior' = file
    /\ UNCHANGED file
    /\ HarnessIdle

\* Lines 203-215, demo branch: configuration, mkdir, generate_demo_data.
StartDemo ==
    /\ pc = "start"
    /\ api_key' \in {get_api_key(env) : env \in KeyEnv} \cap {"demo"}
    /\ symbols' \in SymbolLists
    /\ \E now \in Todays, drawAt \in [1..Len(symbols') -> Draws] :
          stocks' = generate_demo_data(symbols', drawAt, now)
    /\ idx' = 1
    /\ pc' = "post"
    /\ quote' = NoQuote
    /\ requests' = <<>>
    /\ exit_status' = NotExited
    /\ exc' = "none"
    /\ written' = FALSE
    /\ prior' = file
    /\ UNCHANGED file
    /\ HarnessIdle

\* Lines 219-223 and 230-231: the quote request of symbols[idx].
FetchQuoteStep ==
    /\ pc = "loop"
    /\ idx <= Len(symbols)
    /\ \E r \in {fetch_quote(symbols[idx], resp) : resp \in QuoteResponses} :
              /\ requests' = Append(requests,
                                 Request("quote", idx, r.exc = "none" /\ Truthy(r.val)))
              /\ IF r.exc # "none"
                 THEN /\ Crash(r.exc)
                      /\ UNCHANGED <<idx, quote>>
                 ELSE IF Truthy(r.val)
                 THEN /\ quote' = r.val
                      /\ pc' = "history"
                      /\ UNCHANGED <<idx, exit_status, exc>>
                 ELSE /\ idx' = idx + 1
                      /\ pc' = NextPc(idx + 1)
                      /\ UNCHANGED <<quote, exit_status, exc>>
    /\ UNCHANGED <<api_key, symbols, stocks, written, file, prior>>
    /\ HarnessIdle

\* Lines 224-229: the history request of symbols[idx] and the record.
FetchHistoryStep ==
    /\ pc = "history"
    /\ \E r \in {fetch_daily_history(resp) : resp \in MainHistResponses} :
              /\ requests' = Append(requests,
                                 Request("history", idx, r.exc = "none" /\ r.val # <<>>))
              /\ IF r.exc # "none"
                 THEN /\ Crash(r.exc)
                      /\ UNCHANGED <<idx, stocks>>
                 ELSE /\ stocks' = DictSet(stocks, symbols[idx],
                                           [quote |-> quote, history |-> r.val])
                      /\ idx' = idx + 1
                      /\ pc' = NextPc(idx + 1)
                      /\ UNCHANGED <<exit_status, exc>>
    /\ UNCHANGED <<api_key, symbols, quote, written, file, prior>>
    /\ HarnessIdle

\* Lines 233-235: nothing fetched, sys.exit(1) before the write.
ExitEmpty ==
    /\ pc = "post"
    /\ DictKeys(stocks) = {}
    /\ pc' = "exited"
    /\ exit_status' = 1
    /\ UNCHANGED <<api_key, symbols, idx, quote, stocks, requests, exc, written, file, prior>>
    /\ HarnessIdle

\* Lines 237-254: the snapshot is built and written over the file, exit 0.
WriteSnapshot ==
    /\ pc = "post"
    /\ DictKeys(stocks) # {}
    /\ \E now \in Todays :
          file' = [lastUpdated |-> now, symbols |-> list_keys(stocks), stocks |-> stocks]
    /\ written' = TRUE
    /\ pc' = "exited"
    /\ exit_status' = 0
    /\ UNCHANGED <<api_key, symbols, idx, quote, stocks, requests, exc, prior>>
    /\ HarnessIdle

\* The process has ended; the next trigger starts a fresh process, which
\* shares nothing with the ended one but the file.
Invoke ==
    /\ pc = "exited"
    /\ pc' = "start"
    /\ api_key' = "demo"
    /\ symbols' = <<>>
    /\ idx' = 1
    /\ quote' = NoQuote
    /\ stocks' = EmptyDict
    /\ requests' = <<>>
    /\ exit_status' = NotExited
    /\ exc' = "none"
    /\ written' = FALSE
    /\ prior' = file
    /\ UNCHANGED file
    /\ HarnessIdle

HistPending == [exc |-> "pending", val |-> <<>>]

DemoPending == [ran |-> FALSE, history |-> <<>>]

HistIdleInit ==
    /\ hin = HistResponse("ok", "object", FALSE, FALSE, <<>>)
    /\ hout = HistPending

DemoIdleInit ==
    /\ din = [price |-> 0, days |-> 0, now |-> <<>>, walk |-> <<>>]
    /\ dout = DemoPending

HarnessInit == HistIdleInit /\ DemoIdleInit

MainInit ==
    /\ api_key = "demo"
    /\ symbols = <<>>
    /\ pc = "start"
    /\ idx = 1
    /\ quote = NoQuote
    /\ stocks = EmptyDict
    /\ requests = <<>>
    /\ exit_status = NotExited
    /\ exc = "none"
    /\ written = FALSE
    /\ file = NoFile
    /\ prior = NoFile

Init == MainInit /\ HarnessInit

Next ==
    \/ StartLive
    \/ StartDemo
    \/ FetchQuoteStep
    \/ FetchHistoryStep
    \/ ExitEmpty
    \/ WriteSnapshot
    \/ Invoke

Spec == Init /\ [][Next]_vars

(***************************************************************************)
(* fetch_daily_history on its own: one call on every response              *)
(***************************************************************************)
HistInputs ==
    {HistResponse("RequestException", "object", FALSE, FALSE, <<>>),
     HistResponse("ok", "array", FALSE, FALSE, <<>>),
     HistResponse("ok", "object", TRUE, FALSE, <<>>),
     HistResponse("ok", "object", FALSE, TRUE, <<>>)}
    \cup {HistResponse("ok", "object", FALSE, FALSE, se) : se \in SeriesUpTo(MaxBars)}

CallHistory ==
    /\ hout = HistPending
    /\ hout' = fetch_daily_history(hin)
    /\ UNCHANGED <<hin, din, dout>>
    /\ UNCHANGED mainVars

InitHist == MainInit /\ DemoIdleInit /\ hin \in HistInputs /\ hout = HistPending

NextHist == CallHistory

SpecHist == InitHist /\ [][NextHist]_vars

(***************************************************************************)
(* generate_demo_history on its own: one call on every days, clock and     *)
(* sequence of random draws                                                *)
(***************************************************************************)
DemoTodays == 700..706

Walks == {0 - 30, 35}

\* The values datetime.now() takes over the iterations: the date of the first
\* read, and the day after from the iteration at which midnight has passed.
ClockRuns(d) ==
    {[i \in 0..(d - 1) |-> IF i >= k THEN start + 1 ELSE start] :
        start \in DemoTodays, k \in 0..d}

DemoInputs ==
    UNION {[price : {10500}, days : {d}, now : ClockRuns(d),
            walk : [0..(d - 1) -> Walks]] : d \in 0..MaxDays}

CallDemoHistory ==
    /\ dout = DemoPending
    /\ dout' = [ran |-> TRUE,
                history |-> generate_demo_history(din.price, din.days, din.now, din.walk)]
    /\ UNCHANGED <<din, hin, hout>>
    /\ UNCHANGED mainVars

InitDemo == MainInit /\ HistIdleInit /\ din \in DemoInputs /\ dout = DemoPending

NextDemo == CallDemoHistory

SpecDemo == InitDemo /\ [][NextDemo]_vars

(***************************************************************************)
(* Properties of the pipeline runs (Spec)                                  *)
(***************************************************************************)
Live == pc # "start" /\ api_key # "demo"

Demo == pc # "start" /\ api_key = "demo"

Last(s) == s[Len(s)]

IsQuoteRequest(i) == requests[i].kind = "quote"

RequestedSymbol(i) == symbols[requests[i].pos]

\* Some quote fetch of the run for symbol s succeeded.
QuoteOk(s) ==
    \E i \in DOMAIN requests : IsQuoteRequest(i) /\ requests[i].ok /\ RequestedSymbol(i) = s

\* Some quote fetch of the run for symbol s returned absent.
QuoteAbsent(s) ==
    \E i \in DOMAIN requests : IsQuoteRequest(i) /\ ~requests[i].ok /\ RequestedSymbol(i) = s

InOutput(s) == s \in DictKeys(file.stocks) /\ s \in Range(file.symbols)

NotInOutput(s) == s \notin DictKeys(file.stocks) /\ s \notin Range(file.symbols)

QuoteCount(i) == Cardinality({j \in 1..i : IsQuoteRequest(j)})

\* C1 as stated: in the snapshot written by a live run, a symbol whose quote
\* fetch returned absent is in neither stocks nor symbols, and a symbol
\* whose quote fetch succeeded is in both.
C1_AbsentSymbolExcluded ==
    (Live /\ written) =>
        \A s \in Range(symbols) :
            /\ QuoteAbsent(s) => NotInOutput(s)
            /\ QuoteOk(s) => InOutput(s)

\* C1 amended: in the snapshot written by a live run, a symbol none of whose
\* quote fetches succeeded is in neither stocks nor symbols, and a symbol
\* with a successful quote fetch is in both.
C1_UnfetchedSymbolExcluded ==
    (Live /\ written) =>
        \A s \in Range(symbols) :
            /\ ~QuoteOk(s) => NotInOutput(s)
            /\ QuoteOk(s) => InOutput(s)

\* A written live run in which a symbol failed before another one succeeded.
C1_Witness ==
    /\ Live
    /\ written
    /\ \E i, j \in DOMAIN requests :
          /\ i < j
          /\ IsQuoteRequest(i) /\ ~requests[i].ok
          /\ IsQuoteRequest(j) /\ requests[j].ok
          /\ NotInOutput(RequestedSymbol(i))
          /\ InOutput(RequestedSymbol(j))

\* C2: a run exits with status 1 exactly when no symbol yielded data, and
\* then nothing is written and the prior snapshot is intact; every other run
\* exits with status 0 after writing at least one symbol's data.
C2_ExitStatus ==
    pc = "exited" =>
        /\ exit_status = 1 <=> DictKeys(stocks) = {}
        /\ exit_status = 1 => (~written /\ file = prior)
        /\ exit_status # 1 =>
              (exit_status = 0 /\ written /\ DictKeys(file.stocks) # {})

\* C3: no per-request error leaves fetch_quote or fetch_daily_history, and a
\* run fails only when no symbol yielded data.
C3_ErrorsAbsorbed ==
    /\ exc = "none"
    /\ exit_status = 1 => (pc = "exited" /\ DictKeys(stocks) = {})

\* C4: a demo run issues no request, never ends with the failure status, and
\* writes a snapshot holding a Quote and a History for every configured
\* symbol.
C4_DemoComplete ==
    Demo =>
        /\ requests = <<>>
        /\ exc = "none"
        /\ exit_status # 1
        /\ pc = "exited" =>
              /\ written
              /\ exit_status = 0
              /\ \A s \in Range(symbols) :
                    /\ InOutput(s)
                    /\ file.stocks.val[s].quote.symbol = s
                    /\ file.stocks.val[s].quote.price > 0
                    /\ Len(file.stocks.val[s].history) <= DemoDays

\* A finished demo run over at least two symbols, one of them without a base
\* price.
C4_Witness ==
    /\ Demo
    /\ pc = "exited"
    /\ written
    /\ Len(symbols) >= 2
    /\ \E s \in Range(symbols) : base_prices(s) = 10000

\* C5: in every written snapshot, symbols is equal as a set to the keys of
\* stocks.
C5_SymbolsAreKeys ==
    file # NoFile => Range(file.symbols) = DictKeys(file.stocks)

\* A snapshot just written whose symbols differ from the configured list.
C5_Witness ==
    /\ written
    /\ Len(file.symbols) < Len(symbols)
    /\ Range(file.symbols) # {}

\* C6: once the history fetch of a symbol has failed, the symbol is recorded
\* with the quote already obtained and an empty history.
C6_HistoryFailureKeepsQuote ==
    (Live /\ requests # <<>> /\ Last(requests).kind = "history" /\ ~Last(requests).ok) =>
        LET s == symbols[Last(requests).pos]
        IN  /\ s \in DictKeys(stocks)
            /\ stocks.val[s] = [quote |-> quote, history |-> <<>>]

\* C7: the snapshot a run has written holds exactly the records the run
\* accumulated, each for a configured symbol fetched in this run: nothing of
\* the prior snapshot is merged in.
C7_FullReplace ==
    written =>
        /\ file.stocks = stocks
        /\ \A s \in DictKeys(file.stocks) :
              /\ s \in Range(symbols)
              /\ Live => QuoteOk(s)

\* A run has written a snapshot that lacks a symbol of the prior snapshot.
C7_Witness ==
    /\ written
    /\ \E s \in DictKeys(prior.stocks) : s \notin DictKeys(file.stocks)

IsDateMap(r) == r.transport = "ok" /\ ~r.error /\ ~r.note /\ r.shape = "object"

Dates(h) == {h[i].date : i \in DOMAIN h}

Ascending(h) == \A i \in 1..(Len(h) - 1) : StrLess(h[i].date, h[i + 1].date)

BarCoerces(b) ==
    b.shape = "object" /\ float(b.close).exc = "none" /\ int(b.volume).exc = "none"

OnePointPerDateAscending ==
    /\ hout.exc = "none"
    /\ Len(hout.val) = Len(hin.series)
    /\ Dates(hout.val) = Dates(hin.series)
    /\ Ascending(hout.val)

\* C8 as stated: for every date-to-bar map, the result has one point per
\* date entry, ascending by date string.
C8_EveryMapSorted ==
    (hout # HistPending /\ IsDateMap(hin)) => OnePointPerDateAscending

\* C8 amended: for every date-to-bar map whose bars all coerce to numbers,
\* the result has one point per date entry, ascending by date string.
C8_CoercibleMapSorted ==
    (hout # HistPending /\ IsDateMap(hin)
        /\ \A i \in DOMAIN hin.series : BarCoerces(hin.series[i].bar))
    => OnePointPerDateAscending

\* A call on a map of three coercible bars that is not in ascending order.
C8_Witness ==
    /\ hout # HistPending
    /\ IsDateMap(hin)
    /\ Len(hin.series) = 3
    /\ \A i \in DOMAIN hin.series : BarCoerces(hin.series[i].bar)
    /\ ~Ascending(hin.series)
    /\ Len(hout.val) = 3

(***************************************************************************)
(* Properties of generate_demo_history (SpecDemo)                          *)
(***************************************************************************)
\* C9: the synthetic history has at most days entries, none dated on a
\* weekend, with strictly ascending dates.
C9_DemoHistory ==
    dout.ran =>
        /\ Len(dout.history) <= din.days
        /\ \A i \in DOMAIN dout.history : weekday(Ordinal(dout.history[i].date)) < 5
        /\ Ascending(dout.history)

\* A call over a full week: some days skipped, some emitted.
C9_Witness ==
    /\ dout.ran
    /\ din.days >= 7
    /\ Len(dout.history) >= 2
    /\ Len(dout.history) < din.days

====
